---------------------------- MODULE Spec2Model ----------------------------
(***************************************************************************)
(* Issue Register: the permission service, the issue service (create,      *)
(* update, add note, delete) and the audit log it writes, modelled from    *)
(* src/src/services/{permissions,issue_service,audit}.py and               *)
(* src/src/database/{models,queries}.py.                                   *)
(*                                                                         *)
(* Representation.  An Optional value is a tuple: None is <<>> and a       *)
(* present value v is <<v>>.  A datetime is a tick of the clock; a date is *)
(* the day of a tick.  A text (Issue.updates) is the sequence of its       *)
(* lines, each line a triple <<tick, author, words>>.  An ISO text is the   *)
(* pair <<"iso", value>>, a JSON text the pair <<"json", value>>.  An       *)
(* update payload (a Python dict) is a function from its keys to their     *)
(* values.  A list used for membership only (a filter, a user's            *)
(* departments) is a set.  Every read of the clock inside one service call *)
(* returns the same tick.                                                  *)
(***************************************************************************)
EXTENDS Integers, Sequences, FiniteSets, TLC

VARIABLES issues, nextIssueId, audit, users, nextUserId, current_user, clock,
          calls, last, procs, writes

vars ==
    <<issues, nextIssueId, audit, users, nextUserId, current_user, clock,
      calls, last, procs, writes>>

(***************************************************************************)
(* Bounds of the model.                                                    *)
(***************************************************************************)
\* service calls in one behaviour
MaxCalls == 2
\* calls made through one session (login, user management, issues)
MaxSessionCalls == 4
\* service calls begun by the running instances of the application
MaxStarts == 3

None == <<>>
Some(v) == <<v>>

(***************************************************************************)
(* models.py: the enumerations.                                            *)
(***************************************************************************)
DRAFT == "Draft"
OPEN == "Open"
IN_PROGRESS == "In Progress"
REMEDIATED == "Remediated"
CLOSED == "Closed"
Status == {DRAFT, OPEN, IN_PROGRESS, REMEDIATED, CLOSED}

ADMINISTRATOR == "Administrator"
EDITOR == "Editor"
RESTRICTED == "Restricted"
VIEWER == "Viewer"
UserRole == {ADMINISTRATOR, EDITOR, RESTRICTED, VIEWER}

RiskLevelNone == "None"

(***************************************************************************)
(* models.py: User, and its two department checks.  The department lists   *)
(* are used for emptiness and membership only, so they are sets here.      *)
(***************************************************************************)
User(id, username, role, departments, view_departments, edit_departments) ==
    [id |-> id, username |-> username, role |-> role,
     departments |-> departments,
     view_departments |-> view_departments,
     edit_departments |-> edit_departments]

\* mutant: an issue without a department is outside every scope
can_access_department_null_scoped(self, department) ==
    IF self.role = ADMINISTRATOR THEN TRUE
    ELSE IF self.role = EDITOR THEN
        IF self.view_departments = {} THEN TRUE
        ELSE department # None /\ department[1] \in self.view_departments
    ELSE IF self.departments = {} THEN TRUE
    ELSE department # None /\ department[1] \in self.departments

can_access_department(self, department) ==
    IF self.role = ADMINISTRATOR THEN TRUE
    ELSE IF self.role = EDITOR THEN
        IF self.view_departments = {} THEN TRUE
        ELSE IF department = None THEN TRUE
        ELSE department[1] \in self.view_departments
    ELSE IF self.departments = {} THEN TRUE
    ELSE IF department = None THEN TRUE
    ELSE department[1] \in self.departments

\* mutant: an Editor's edit_departments are not looked at
can_edit_department_editor_any(self, department) ==
    IF self.role = ADMINISTRATOR THEN TRUE
    ELSE IF self.role = VIEWER THEN FALSE
    ELSE IF self.role = EDITOR THEN TRUE
    ELSE IF self.departments = {} THEN TRUE
    ELSE IF department = None THEN TRUE
    ELSE department[1] \in self.departments

can_edit_department(self, department) ==
    IF self.role = ADMINISTRATOR THEN TRUE
    ELSE IF self.role = VIEWER THEN FALSE
    ELSE IF self.role = EDITOR THEN
        IF self.edit_departments = {} THEN TRUE
        ELSE IF department = None THEN TRUE
        ELSE department[1] \in self.edit_departments
    ELSE IF self.departments = {} THEN TRUE
    ELSE IF department = None THEN TRUE
    ELSE department[1] \in self.departments

\* User.to_dict: an Editor's lists are stored as the object {view, edit},
\* the list of any other role as an array; json.dumps of either is the
\* JSON text of a tagged value.  The password hash is left out.
user_to_dict(self) ==
    [id |-> self.id, username |-> self.username, role |-> self.role,
     departments |->
        IF self.role = EDITOR
        THEN <<"json", <<"object", self.view_departments,
                         self.edit_departments>>>>
        ELSE <<"json", <<"array", self.departments>>>>]

user_from_row(row) ==
    LET dept_data == row.departments[2] IN
    [id |-> row.id, username |-> row.username, role |-> row.role,
     departments |-> IF dept_data[1] = "array" THEN dept_data[2] ELSE {},
     view_departments |-> IF dept_data[1] = "object" THEN dept_data[2] ELSE {},
     edit_departments |-> IF dept_data[1] = "object" THEN dept_data[3] ELSE {}]

(***************************************************************************)
(* models.py: Issue.  The field names, the dataclass defaults and to_dict. *)
(***************************************************************************)
IssueFields ==
    {"id", "title", "status", "summary_description", "topic", "identified_by",
     "owner", "department", "description", "remediation_action",
     "risk_description", "risk_level", "identification_date", "due_date",
     "follow_up_date", "updates", "closing_date", "supporting_docs",
     "created_at", "updated_at"}

Issue(title, status, department, updates, closing_date) ==
    [id |-> None, title |-> title, status |-> status,
     summary_description |-> None, topic |-> None, identified_by |-> None,
     owner |-> None, department |-> department, description |-> None,
     remediation_action |-> None, risk_description |-> None,
     risk_level |-> RiskLevelNone, identification_date |-> None,
     due_date |-> None, follow_up_date |-> None, updates |-> updates,
     closing_date |-> closing_date, supporting_docs |-> <<>>,
     created_at |-> None, updated_at |-> None]

\* date.isoformat() / datetime.isoformat() of an Optional value
isoformat(d) == IF d # None THEN <<"iso", d[1]>> ELSE None

\* json.dumps of a list of strings
json_dumps(l) == <<"json", l>>

to_dict(self) ==
    [id |-> self.id, title |-> self.title, status |-> self.status,
     summary_description |-> self.summary_description, topic |-> self.topic,
     identified_by |-> self.identified_by, owner |-> self.owner,
     department |-> self.department, description |-> self.description,
     remediation_action |-> self.remediation_action,
     risk_description |-> self.risk_description,
     risk_level |-> self.risk_level,
     identification_date |-> isoformat(self.identification_date),
     due_date |-> isoformat(self.due_date),
     follow_up_date |-> isoformat(self.follow_up_date),
     updates |-> self.updates,
     closing_date |-> isoformat(self.closing_date),
     supporting_docs |-> json_dumps(self.supporting_docs),
     created_at |-> isoformat(self.created_at),
     updated_at |-> isoformat(self.updated_at)]

\* date.fromisoformat() / datetime.fromisoformat()
fromisoformat(text) == Some(text[2])

\* json.loads of what json.dumps wrote
json_loads(text) == text[2]

\* parse_date / parse_datetime of from_row: a NULL column is None
parse_date(value) == IF value = None THEN None ELSE fromisoformat(value)

\* "if row[supporting_docs]": a NULL or empty column is the empty list
parse_supporting_docs(value) ==
    IF value # None THEN json_loads(value) ELSE <<>>

from_row(row) ==
    [id |-> row.id, title |-> row.title, status |-> row.status,
     summary_description |-> row.summary_description, topic |-> row.topic,
     identified_by |-> row.identified_by, owner |-> row.owner,
     department |-> row.department, description |-> row.description,
     remediation_action |-> row.remediation_action,
     risk_description |-> row.risk_description,
     risk_level |-> row.risk_level,
     identification_date |-> parse_date(row.identification_date),
     due_date |-> parse_date(row.due_date),
     follow_up_date |-> parse_date(row.follow_up_date),
     updates |-> row.updates,
     closing_date |-> parse_date(row.closing_date),
     supporting_docs |-> parse_supporting_docs(row.supporting_docs),
     created_at |-> parse_date(row.created_at),
     updated_at |-> parse_date(row.updated_at)]

(***************************************************************************)
(* permissions.py: PermissionService.                                      *)
(***************************************************************************)
\* mutant: a Restricted user may edit the title
RESTRICTED_EDITABLE_FIELDS_title ==
    {"status", "updates", "supporting_docs", "follow_up_date", "title"}

RESTRICTED_EDITABLE_FIELDS ==
    {"status", "updates", "supporting_docs", "follow_up_date"}

\* mutant: a Restricted user may close a Remediated issue
RESTRICTED_STATUS_TRANSITIONS_close(s) ==
    CASE s = OPEN -> {IN_PROGRESS}
      [] s = IN_PROGRESS -> {OPEN, REMEDIATED}
      [] s = REMEDIATED -> {IN_PROGRESS, CLOSED}
      [] OTHER -> {}

RESTRICTED_STATUS_TRANSITIONS(s) ==
    CASE s = OPEN -> {IN_PROGRESS}
      [] s = IN_PROGRESS -> {OPEN, REMEDIATED}
      [] s = REMEDIATED -> {IN_PROGRESS}
      [] OTHER -> {}

\* mutant: a Draft may be closed directly
ALL_STATUS_TRANSITIONS_draft_closes(s) ==
    CASE s = DRAFT -> {OPEN, CLOSED}
      [] s = OPEN -> {IN_PROGRESS, CLOSED}
      [] s = IN_PROGRESS -> {OPEN, REMEDIATED, CLOSED}
      [] s = REMEDIATED -> {IN_PROGRESS, CLOSED}
      [] s = CLOSED -> {}
      [] OTHER -> {}

ALL_STATUS_TRANSITIONS(s) ==
    CASE s = DRAFT -> {OPEN}
      [] s = OPEN -> {IN_PROGRESS, CLOSED}
      [] s = IN_PROGRESS -> {OPEN, REMEDIATED, CLOSED}
      [] s = REMEDIATED -> {IN_PROGRESS, CLOSED}
      [] s = CLOSED -> {}
      [] OTHER -> {}

\* mutant: nobody is refused
can_create_issue_anyone(user) == TRUE

can_create_issue(user) == user.role # VIEWER

can_view_issue(user, issue) == can_access_department(user, issue.department)

\* mutant: an Editor's edit scope is taken from view_departments
can_edit_issue_editor_by_view(user, issue) ==
    IF user.role = VIEWER THEN FALSE
    ELSE IF user.role = ADMINISTRATOR THEN TRUE
    ELSE IF user.role = EDITOR
        THEN can_access_department(user, issue.department)
    ELSE IF user.role = RESTRICTED
            /\ ~can_access_department(user, issue.department) THEN FALSE
    ELSE IF user.role = RESTRICTED /\ issue.status \in {CLOSED, DRAFT} THEN FALSE
    ELSE TRUE

\* mutant: a Restricted user is kept from Closed issues only, not from Drafts
can_edit_issue_draft_open(user, issue) ==
    IF user.role = VIEWER THEN FALSE
    ELSE IF user.role = ADMINISTRATOR THEN TRUE
    ELSE IF user.role = EDITOR THEN can_edit_department(user, issue.department)
    ELSE IF user.role = RESTRICTED
            /\ ~can_access_department(user, issue.department) THEN FALSE
    ELSE IF user.role = RESTRICTED /\ issue.status \in {CLOSED} THEN FALSE
    ELSE TRUE

can_edit_issue(user, issue) ==
    IF user.role = VIEWER THEN FALSE
    ELSE IF user.role = ADMINISTRATOR THEN TRUE
    ELSE IF user.role = EDITOR THEN can_edit_department(user, issue.department)
    ELSE IF user.role = RESTRICTED
            /\ ~can_access_department(user, issue.department) THEN FALSE
    ELSE IF user.role = RESTRICTED /\ issue.status \in {CLOSED, DRAFT} THEN FALSE
    ELSE TRUE

\* mutant: an Editor may delete
can_delete_issue_editor(user) == user.role \in {ADMINISTRATOR, EDITOR}

can_delete_issue(user) == user.role = ADMINISTRATOR

ALL_EDITABLE_FIELDS ==
    {"title", "status", "summary_description", "topic", "identified_by",
     "owner", "department", "description", "remediation_action",
     "risk_description", "risk_level", "identification_date", "due_date",
     "follow_up_date", "updates", "closing_date", "supporting_docs"}

get_editable_fields(user, issue) ==
    IF ~can_edit_issue(user, issue) THEN {}
    ELSE IF user.role \in {ADMINISTRATOR, EDITOR} THEN ALL_EDITABLE_FIELDS
    ELSE RESTRICTED_EDITABLE_FIELDS

\* mutant: a status is not a legal successor of itself
can_change_status_no_self(user, current_status, new_status) ==
    IF user.role = VIEWER THEN FALSE
    ELSE IF new_status \notin ALL_STATUS_TRANSITIONS(current_status) THEN FALSE
    ELSE IF user.role = RESTRICTED
        THEN new_status \in RESTRICTED_STATUS_TRANSITIONS(current_status)
    ELSE TRUE

\* mutant: an Administrator is not held to the graph
can_change_status_admin_any(user, current_status, new_status) ==
    IF current_status = new_status THEN TRUE
    ELSE IF user.role = VIEWER THEN FALSE
    ELSE IF user.role = ADMINISTRATOR THEN TRUE
    ELSE IF new_status \notin ALL_STATUS_TRANSITIONS(current_status) THEN FALSE
    ELSE IF user.role = RESTRICTED
        THEN new_status \in RESTRICTED_STATUS_TRANSITIONS(current_status)
    ELSE TRUE

can_change_status(user, current_status, new_status) ==
    IF current_status = new_status THEN TRUE
    ELSE IF user.role = VIEWER THEN FALSE
    ELSE IF new_status \notin ALL_STATUS_TRANSITIONS(current_status) THEN FALSE
    ELSE IF user.role = RESTRICTED
        THEN new_status \in RESTRICTED_STATUS_TRANSITIONS(current_status)
    ELSE TRUE

\* mutant: nothing is dropped from the list
filter_issues_by_permission_all(user, list) == list

filter_issues_by_permission(user, list) ==
    LET viewable(issue) == can_view_issue(user, issue) IN
    SelectSeq(list, viewable)

\* mutant: every role starts its issues as Draft
get_default_status_for_role_draft(user) == DRAFT

get_default_status_for_role(user) ==
    IF user.role = RESTRICTED THEN DRAFT ELSE OPEN

(***************************************************************************)
(* The clock.  datetime.now() is the tick, date.today() its day.           *)
(***************************************************************************)
today(now) == now \div 2

(***************************************************************************)
(* queries.py: the issues table and the audit_log table.  Both keys are    *)
(* AUTOINCREMENT: an id is never given twice.  The issues table is a        *)
(* function from the ids to the rows; a row holds the values the INSERT and *)
(* UPDATE statements bind, dates and timestamps as their ISO text.          *)
(***************************************************************************)
queries_get_issue(store, issue_id) ==
    IF issue_id \in DOMAIN store THEN Some(from_row(store[issue_id])) ELSE None

\* the params of INSERT and of UPDATE, with the id and the timestamps of the
\* row they leave
issue_row(issue) ==
    [id |-> issue.id, title |-> issue.title, status |-> issue.status,
     summary_description |-> issue.summary_description, topic |-> issue.topic,
     identified_by |-> issue.identified_by, owner |-> issue.owner,
     department |-> issue.department, description |-> issue.description,
     remediation_action |-> issue.remediation_action,
     risk_description |-> issue.risk_description,
     risk_level |-> issue.risk_level,
     identification_date |-> isoformat(issue.identification_date),
     due_date |-> isoformat(issue.due_date),
     follow_up_date |-> isoformat(issue.follow_up_date),
     updates |-> issue.updates,
     closing_date |-> isoformat(issue.closing_date),
     supporting_docs |-> json_dumps(issue.supporting_docs),
     created_at |-> isoformat(issue.created_at),
     updated_at |-> isoformat(issue.updated_at)]

\* INSERT: the issue gets the next id and both timestamps
queries_create_issue(issue, id, now) ==
    [issue EXCEPT !.id = Some(id), !.created_at = Some(now),
                  !.updated_at = Some(now)]

\* UPDATE ... WHERE id = ?: every column but id and created_at is written
queries_update_issue(issue, now) == [issue EXCEPT !.updated_at = Some(now)]

\* ORDER BY id ASC / DESC of a set of ids
RECURSIVE order_by_id(_, _)
order_by_id(ids, order_dir) ==
    IF ids = {} THEN <<>>
    ELSE LET first == IF order_dir = "ASC"
                      THEN CHOOSE i \in ids : \A j \in ids : i <= j
                      ELSE CHOOSE i \in ids : \A j \in ids : i >= j
         IN  <<first>> \o order_by_id(ids \ {first}, order_dir)

\* SELECT * FROM issues WHERE status IN (...) AND department IN (...)
\* ORDER BY id <order_dir>: an empty filter adds no condition, a NULL
\* department is IN no list, an order_dir other than ASC and DESC is DESC
queries_list_issues(store, status, department, order_dir) ==
    LET matching ==
            {i \in DOMAIN store :
                /\ status # {} => store[i].status \in status
                /\ department # {} =>
                        /\ store[i].department # None
                        /\ store[i].department[1] \in department}
        ordered == order_by_id(matching,
                               IF order_dir \in {"ASC", "DESC"}
                               THEN order_dir ELSE "DESC")
    IN  [n \in 1..Len(ordered) |-> from_row(store[ordered[n]])]

StorePut(store, issue) ==
    [i \in DOMAIN store \cup {issue.id[1]} |->
        IF i = issue.id[1] THEN issue_row(issue) ELSE store[i]]

StoreDelete(store, issue_id) ==
    [i \in DOMAIN store \ {issue_id} |-> store[i]]

create_audit_log(log, entry, now) ==
    Append(log, [entry EXCEPT !.id = Some(Len(log) + 1),
                              !.timestamp = Some(now)])

\* the users table: a function from the ids to the rows
queries_get_user(table, user_id) ==
    IF user_id \in DOMAIN table THEN Some(user_from_row(table[user_id]))
    ELSE None

\* username is UNIQUE
queries_get_user_by_username(table, username) ==
    IF \E i \in DOMAIN table : table[i].username = username
    THEN Some(user_from_row(
            table[CHOOSE i \in DOMAIN table : table[i].username = username]))
    ELSE None

queries_user_exists(table, username) ==
    \E i \in DOMAIN table : table[i].username = username

queries_list_users(table) == {user_from_row(table[i]) : i \in DOMAIN table}

\* INSERT and UPDATE write user.to_dict()["departments"]
UserPut(table, user) ==
    [i \in DOMAIN table \cup {user.id[1]} |->
        IF i = user.id[1] THEN user_to_dict(user) ELSE table[i]]

queries_delete_user(table, user_id) ==
    [i \in DOMAIN table \ {user_id} |-> table[i]]

(***************************************************************************)
(* audit.py: AuditService.                                                 *)
(***************************************************************************)
AuditLogEntry(user, action, entity_id, details) ==
    [id |-> None, user_id |-> user.id, username |-> user.username,
     action |-> action, entity_type |-> "issue", entity_id |-> entity_id,
     details |-> details, timestamp |-> None]

log_issue_created(log, user, issue, now) ==
    create_audit_log(log,
        AuditLogEntry(user, "created", issue.id,
                      [title |-> issue.title, status |-> issue.status]), now)

\* mutant: the diff leaves closing_date out
audit_changes_skips_closing_date(before, after) ==
    [key \in {k \in DOMAIN after \ {"closing_date"} : before[k] # after[k]} |->
        [before |-> before[key], after |-> after[key]]]

\* the changed keys of after, each with its before and after value
audit_changes(before, after) ==
    [key \in {k \in DOMAIN after : before[k] # after[k]} |->
        [before |-> before[key], after |-> after[key]]]

log_issue_updated(log, user, issue_id, before, after, now) ==
    LET changes == audit_changes(before, after) IN
    IF DOMAIN changes = {} THEN log
    ELSE create_audit_log(log,
            AuditLogEntry(user, "updated", Some(issue_id),
                          [changes |-> changes]), now)

log_issue_status_changed(log, user, issue_id, old_status, new_status, now) ==
    create_audit_log(log,
        AuditLogEntry(user, "status_changed", Some(issue_id),
                      [before |-> old_status, after |-> new_status]), now)

\* mutant: the deletion is not logged
log_issue_deleted_skipped(log, user, issue, now) == log

log_issue_deleted(log, user, issue, now) ==
    create_audit_log(log,
        AuditLogEntry(user, "deleted", issue.id, [title |-> issue.title]), now)

UserAuditLogEntry(user, action, entity_id, details) ==
    [id |-> None, user_id |-> user.id, username |-> user.username,
     action |-> action, entity_type |-> "user", entity_id |-> entity_id,
     details |-> details, timestamp |-> None]

log_user_login(log, user, now) ==
    create_audit_log(log, UserAuditLogEntry(user, "login", user.id, None), now)

log_user_logout(log, user, now) ==
    create_audit_log(log, UserAuditLogEntry(user, "logout", user.id, None), now)

log_user_created(log, admin, new_user, now) ==
    create_audit_log(log,
        UserAuditLogEntry(admin, "created", new_user.id,
                          [username |-> new_user.username,
                           role |-> new_user.role]), now)

log_user_updated(log, admin, updated_user, changes, now) ==
    create_audit_log(log,
        UserAuditLogEntry(admin, "updated", updated_user.id,
                          [username |-> updated_user.username,
                           changes |-> changes]), now)

\* mutant: the events that refer to the deleted user go with it
log_user_deleted_purges(log, admin, deleted_user, now) ==
    LET kept(entry) ==
            ~(entry.entity_type = "user" /\ entry.entity_id = deleted_user.id)
    IN  create_audit_log(SelectSeq(log, kept),
            UserAuditLogEntry(admin, "deleted", deleted_user.id,
                              [username |-> deleted_user.username]), now)

log_user_deleted(log, admin, deleted_user, now) ==
    create_audit_log(log,
        UserAuditLogEntry(admin, "deleted", deleted_user.id,
                          [username |-> deleted_user.username]), now)

(***************************************************************************)
(* issue_service.py: IssueService.  Each method is an operator from the    *)
(* database st = [issues, nextIssueId, audit] and the arguments to the     *)
(* outcome: the database afterwards and the returned pair.  An error is a  *)
(* tuple, its first element the message; the empty tuple is "".            *)
(***************************************************************************)
ERR_CREATE_DENIED == <<"You do not have permission to create issues.">>
ERR_NOT_FOUND == <<"Issue not found.">>
ERR_EDIT_DENIED == <<"You do not have permission to edit this issue.">>
ERR_NOTE_DENIED == <<"You do not have permission to update this issue.">>
ERR_VIEW_DENIED == <<"You do not have permission to view this issue.">>
ERR_DELETE_DENIED == <<"You do not have permission to delete issues.">>
ERR_FIELD_DENIED(field) ==
    <<"You do not have permission to edit the field.", field>>
ERR_STATUS(old_status, new_status) ==
    <<"You cannot change status.", old_status, new_status>>
NO_ERROR == <<>>

\* return None, error: nothing was written
Rejected(st, error) ==
    [issues |-> st.issues, nextIssueId |-> st.nextIssueId, audit |-> st.audit,
     ok |-> FALSE, err |-> error, ret |-> None]

create_issue(st, user, issue, now) ==
    IF ~can_create_issue(user) THEN Rejected(st, ERR_CREATE_DENIED)
    ELSE
    LET defaulted ==
            IF issue.status = DRAFT /\ user.role # RESTRICTED
            THEN [issue EXCEPT !.status = get_default_status_for_role(user)]
            ELSE issue
        dated ==
            IF defaulted.identification_date = None
            THEN [defaulted EXCEPT !.identification_date = Some(today(now))]
            ELSE defaulted
        created == queries_create_issue(dated, st.nextIssueId, now)
    IN  [issues |-> StorePut(st.issues, created),
         nextIssueId |-> st.nextIssueId + 1,
         audit |-> log_issue_created(st.audit, user, created, now),
         ok |-> TRUE, err |-> NO_ERROR, ret |-> Some(created)]

IMMUTABLE_KEYS == {"id", "created_at", "updated_at"}

\* mutant: a key that is not editable is skipped, not refused
denied_fields_none(user, original, updates) == {}

\* the keys of the payload at which the loop of update_issue returns an error
denied_fields(user, original, updates) ==
    {field \in DOMAIN updates :
        /\ field \notin get_editable_fields(user, original)
        /\ field \notin IMMUTABLE_KEYS}

\* the loop of update_issue, when it runs to its end: setattr on every
\* editable key
apply_updates(original, updates, editable_fields) ==
    [field \in DOMAIN original |->
        IF field \in DOMAIN updates /\ field \in editable_fields
        THEN updates[field] ELSE original[field]]

\* mutant: the closing date is left as the payload made it
auto_closing_date_never(issue, new_status, now) == issue

\* "Auto-set closing date when moving to Closed"
auto_closing_date(issue, new_status, now) ==
    IF new_status = CLOSED /\ issue.closing_date = None
    THEN [issue EXCEPT !.closing_date = Some(today(now))]
    ELSE issue

\* mutant: a payload that names status is logged as a change of status
status_change_logged_always(updates, original_status) ==
    "status" \in DOMAIN updates

\* "Log status change specifically if it occurred"
status_change_logged(updates, original_status) ==
    "status" \in DOMAIN updates /\ updates["status"] # original_status

\* first_denied: the key the loop meets first among the denied ones (the
\* order of the payload's keys is the caller's)
update_issue(st, user, issue_id, updates, now, first_denied) ==
    LET found == queries_get_issue(st.issues, issue_id) IN
    IF found = None THEN Rejected(st, ERR_NOT_FOUND)
    ELSE
    LET original == found[1]
        original_dict == to_dict(original)
        original_status == original.status
        editable_fields == get_editable_fields(user, original)
    IN
    IF ~can_edit_issue(user, original) THEN Rejected(st, ERR_EDIT_DENIED)
    ELSE IF denied_fields(user, original, updates) # {}
        THEN Rejected(st, ERR_FIELD_DENIED(first_denied))
    ELSE IF "status" \in DOMAIN updates
            /\ ~can_change_status(user, original_status, updates["status"])
        THEN Rejected(st, ERR_STATUS(original_status, updates["status"]))
    ELSE
    LET applied == apply_updates(original, updates, editable_fields)
        closed ==
            IF "status" \in DOMAIN updates
            THEN auto_closing_date(applied, updates["status"], now)
            ELSE applied
        updated == queries_update_issue(closed, now)
        logged == log_issue_updated(st.audit, user, issue_id, original_dict,
                                    to_dict(updated), now)
    IN  [issues |-> StorePut(st.issues, updated),
         nextIssueId |-> st.nextIssueId,
         audit |->
            IF status_change_logged(updates, original_status)
            THEN log_issue_status_changed(logged, user, issue_id,
                                          original_status, updates["status"],
                                          now)
            ELSE logged,
         ok |-> TRUE, err |-> NO_ERROR, ret |-> Some(updated)]

delete_issue(st, user, issue_id, now) ==
    IF ~can_delete_issue(user) THEN Rejected(st, ERR_DELETE_DENIED)
    ELSE
    LET found == queries_get_issue(st.issues, issue_id) IN
    IF found = None THEN Rejected(st, ERR_NOT_FOUND)
    ELSE [issues |-> StoreDelete(st.issues, issue_id),
          nextIssueId |-> st.nextIssueId,
          audit |-> log_issue_deleted(st.audit, user, found[1], now),
          ok |-> TRUE, err |-> NO_ERROR, ret |-> None]

get_issue(st, user, issue_id) ==
    LET found == queries_get_issue(st.issues, issue_id) IN
    IF found = None THEN Rejected(st, ERR_NOT_FOUND)
    ELSE IF ~can_view_issue(user, found[1]) THEN Rejected(st, ERR_VIEW_DENIED)
    ELSE [issues |-> st.issues, nextIssueId |-> st.nextIssueId,
          audit |-> st.audit, ok |-> TRUE, err |-> NO_ERROR, ret |-> found]

\* the filters by status and by department, ordered by id; the list is the
\* returned value
list_issues(st, user, status, department, order_dir) ==
    [issues |-> st.issues, nextIssueId |-> st.nextIssueId, audit |-> st.audit,
     ok |-> TRUE, err |-> NO_ERROR,
     ret |-> filter_issues_by_permission(user,
                queries_list_issues(st.issues, status, department, order_dir))]

\* "[timestamp] username: note"
note_entry(user, note, now) == <<now, user.username, note>>

add_update_note(st, user, issue_id, note, now) ==
    LET found == queries_get_issue(st.issues, issue_id) IN
    IF found = None THEN Rejected(st, ERR_NOT_FOUND)
    ELSE
    LET issue == found[1] IN
    IF ~can_edit_issue(user, issue) THEN Rejected(st, ERR_NOTE_DENIED)
    ELSE
    LET new_entry == note_entry(user, note, now)
        noted ==
            IF issue.updates # None /\ issue.updates[1] # <<>>
            THEN [issue EXCEPT !.updates = Some(Append(issue.updates[1], new_entry))]
            ELSE [issue EXCEPT !.updates = Some(<<new_entry>>)]
        updated == queries_update_issue(noted, now)
    IN  [issues |-> StorePut(st.issues, updated),
         nextIssueId |-> st.nextIssueId,
         audit |-> st.audit,
         ok |-> TRUE, err |-> NO_ERROR, ret |-> Some(updated)]

(***************************************************************************)
(* auth.py: AuthService.  Each method is an operator from the session      *)
(* se = [users, nextUserId, audit, current_user] and the arguments to the  *)
(* session afterwards and the returned value.  Passwords are left out.     *)
(***************************************************************************)
Returned(se, ret) ==
    [users |-> se.users, nextUserId |-> se.nextUserId, audit |-> se.audit,
     current_user |-> se.current_user, ret |-> ret]

login(se, user, now) ==
    [Returned(se, None) EXCEPT !.current_user = Some(user),
                               !.audit = log_user_login(se.audit, user, now)]

logout(se, now) ==
    [Returned(se, None) EXCEPT
        !.current_user = None,
        !.audit = IF se.current_user # None
                  THEN log_user_logout(se.audit, se.current_user[1], now)
                  ELSE se.audit]

\* the stored admin, or else the virtual one
login_as_admin(se) ==
    LET admin == queries_get_user_by_username(se.users, "admin") IN
    [Returned(se, None) EXCEPT
        !.current_user =
            IF admin # None THEN admin
            ELSE Some(User(Some(0), "admin", ADMINISTRATOR, {}, {}, {}))]

create_user(se, username, role, departments, view_departments, edit_departments, now) ==
    IF queries_user_exists(se.users, username) THEN Returned(se, None)
    ELSE
    LET created == User(Some(se.nextUserId), username, role, departments,
                        view_departments, edit_departments)
    IN  [users |-> UserPut(se.users, created),
         nextUserId |-> se.nextUserId + 1,
         audit |-> IF se.current_user # None
                   THEN log_user_created(se.audit, se.current_user[1],
                                         created, now)
                   ELSE se.audit,
         current_user |-> se.current_user,
         ret |-> Some(created)]

\* username and role are Optional arguments; the department lists are not
\* passed
update_user(se, user_id, username, role, now) ==
    LET found == queries_get_user(se.users, user_id) IN
    IF found = None THEN Returned(se, None)
    ELSE
    LET user == found[1]
        existing == IF username # None
                    THEN queries_get_user_by_username(se.users, username[1])
                    ELSE None
    IN
    IF existing # None /\ existing[1].id # Some(user_id)
    THEN Returned(se, None)
    ELSE
    LET renamed == IF username # None
                   THEN [user EXCEPT !.username = username[1]] ELSE user
        updated == IF role # None
                   THEN [renamed EXCEPT !.role = role[1]] ELSE renamed
        changes ==
            (IF username # None /\ user.username # username[1]
             THEN "username" :> [before |-> user.username,
                                 after |-> username[1]]
             ELSE <<>>)
            @@ (IF role # None /\ user.role # role[1]
                THEN "role" :> [before |-> user.role, after |-> role[1]]
                ELSE <<>>)
    IN  [users |-> UserPut(se.users, updated),
         nextUserId |-> se.nextUserId,
         audit |-> IF se.current_user # None /\ DOMAIN changes # {}
                   THEN log_user_updated(se.audit, se.current_user[1],
                                         updated, changes, now)
                   ELSE se.audit,
         current_user |-> se.current_user,
         ret |-> Some(updated)]

\* mutant: the last Administrator is deleted like any user
last_admin_none(table, user) == FALSE

\* "Don't allow deleting the last admin"
last_admin(table, user) ==
    /\ user.role = ADMINISTRATOR
    /\ Cardinality({u \in queries_list_users(table) :
                        u.role = ADMINISTRATOR}) <= 1

delete_user(se, user_id, now) ==
    LET found == queries_get_user(se.users, user_id) IN
    IF found = None THEN Returned(se, FALSE)
    ELSE IF last_admin(se.users, found[1]) THEN Returned(se, FALSE)
    ELSE [users |-> queries_delete_user(se.users, user_id),
          nextUserId |-> se.nextUserId,
          audit |-> IF se.current_user # None
                    THEN log_user_deleted(se.audit, se.current_user[1],
                                          found[1], now)
                    ELSE se.audit,
          current_user |-> se.current_user,
          ret |-> TRUE]

(***************************************************************************)
(* The callers' inputs: the users, one account of each role, the drafts    *)
(* handed to create_issue and the payloads handed to update_issue.  The    *)
(* Editor's account comes with two settings of view_departments.           *)
(***************************************************************************)
admin_user == User(Some(1), "admin", ADMINISTRATOR, {}, {}, {})
editor_user == User(Some(2), "editor", EDITOR, {}, {}, {"IT"})
restricted_user == User(Some(3), "restricted", RESTRICTED, {"IT"}, {}, {})
viewer_user == User(Some(4), "viewer", VIEWER, {"IT"}, {}, {})
editor_user_view_it == User(Some(2), "editor", EDITOR, {}, {"IT"}, {"IT"})
Users ==
    {admin_user, editor_user, editor_user_view_it, restricted_user,
     viewer_user}

Departments == {None, Some("IT"), Some("Finance")}

Drafts ==
    {Issue("T1", s, d, None, None) : s \in Status, d \in Departments}
        \cup {Issue("T1", REMEDIATED, Some("IT"), None, Some(1))}

PayloadValues(key) ==
    CASE key = "status" -> Status
      [] key = "title" -> {"T2"}
      [] key = "updates" -> {Some(<<<<0, "", "text">>>>)}
      [] key = "department" -> {Some("Finance")}
      [] key = "closing_date" -> {None, Some(9)}
      [] key = "id" -> {Some(9)}
      [] key = "password" -> {"secret"}

PayloadKeySets ==
    {{}, {"status"}, {"title"}, {"updates"}, {"department"}, {"closing_date"},
     {"id"}, {"password"}, {"updates", "title"}}

RECURSIVE PayloadsOf(_)
PayloadsOf(keys) ==
    IF keys = {} THEN {<<>>}
    ELSE LET key == CHOOSE k \in keys : TRUE IN
         {(key :> v) @@ rest :
            v \in PayloadValues(key), rest \in PayloadsOf(keys \ {key})}

\* the payloads of one key and of no key, two keys of which a Restricted
\* user may edit one, and a status together with a closing date
Payloads ==
    UNION {PayloadsOf(keys) : keys \in PayloadKeySets}
        \cup {("status" :> s) @@ ("closing_date" :> d) :
                s \in {IN_PROGRESS, CLOSED}, d \in PayloadValues("closing_date")}

Notes == {"note"}

\* the keyword arguments of list_issues
Filters ==
    [status : {{}, {OPEN}}, department : {{}, {"IT"}}, order_dir : {"DESC"}]
        \cup {[status |-> {}, department |-> {}, order_dir |-> "ASC"]}

(***************************************************************************)
(* The state machine.  A step is one call of the service; last records the *)
(* call, what it returned and the database before it; calls counts the     *)
(* calls made, to bound the behaviours.                                    *)
(***************************************************************************)
Database == [issues |-> issues, nextIssueId |-> nextIssueId, audit |-> audit]

NoUser == User(None, "", "", {}, {}, {})
NoFilters == [status |-> {}, department |-> {}, order_dir |-> ""]

\* create_default_admin: the users table after the migrations
DefaultUsers ==
    1 :> user_to_dict(User(Some(1), "admin", ADMINISTRATOR, {}, {}, {}))

NoSession ==
    /\ users = DefaultUsers
    /\ nextUserId = 2
    /\ current_user = None

\* one instance of the application, its calls running to their end
NoInstances ==
    /\ procs = <<>>
    /\ writes = <<>>

Call(op, user, issue, issue_id, updates, note, filters, now, out) ==
    /\ UNCHANGED <<users, nextUserId, current_user, procs, writes>>
    /\ calls' = calls + 1
    /\ issues' = out.issues
    /\ nextIssueId' = out.nextIssueId
    /\ audit' = out.audit
    /\ clock' = IF out.ok THEN now ELSE clock
    /\ last' = [op |-> op, user |-> user, issue |-> issue,
                issue_id |-> issue_id, updates |-> updates, note |-> note,
                filters |-> filters,
                ok |-> out.ok, err |-> out.err, ret |-> out.ret,
                issues |-> issues, audit |-> audit]

\* the clock as a call may read it: time passes between two calls, or does
\* not; the first call is made at tick 0
Nows == IF calls = 0 THEN {clock} ELSE {clock, clock + 1}

\* a call reads the clock when it writes: a rejected call returns before
WriteNows(accepted) == IF accepted THEN Nows ELSE {clock}

\* the ids a caller may name: the stored ones, the deleted ones, the next
IssueIds == 1..nextIssueId

\* the payloads sent for an id: update_issue does not look at the payload
\* of an id that is not stored
PayloadsFor(issue_id) ==
    IF issue_id \in DOMAIN issues THEN Payloads
    ELSE {<<>>, "status" :> CLOSED}

FirstDenied(user, issue_id, updates) ==
    IF issue_id \in DOMAIN issues
        /\ denied_fields(user, from_row(issues[issue_id]), updates) # {}
    THEN denied_fields(user, from_row(issues[issue_id]), updates)
    ELSE {""}

Init ==
    /\ issues = <<>>
    /\ nextIssueId = 1
    /\ audit = <<>>
    /\ NoSession
    /\ NoInstances
    /\ clock = 0
    /\ calls = 0
    /\ last = [op |-> "", user |-> NoUser, issue |-> None, issue_id |-> 0,
               updates |-> <<>>, note |-> "", filters |-> NoFilters,
               ok |-> FALSE,
               err |-> NO_ERROR, ret |-> None, issues |-> <<>>,
               audit |-> <<>>]

CreateIssue ==
    /\ calls < MaxCalls
    /\ \E user \in Users, issue \in Drafts :
       \E now \in WriteNows(create_issue(Database, user, issue, clock).ok) :
        Call("create_issue", user, Some(issue), 0, <<>>, "", NoFilters, now,
             create_issue(Database, user, issue, now))

UpdateIssue ==
    /\ calls < MaxCalls
    /\ \E user \in Users, issue_id \in IssueIds :
       \E updates \in PayloadsFor(issue_id) :
        \E first_denied \in FirstDenied(user, issue_id, updates) :
            \E now \in WriteNows(update_issue(Database, user, issue_id,
                                              updates, clock, first_denied).ok) :
                Call("update_issue", user, None, issue_id, updates, "", NoFilters,
                     now,
                     update_issue(Database, user, issue_id, updates, now,
                                  first_denied))

DeleteIssue ==
    /\ calls < MaxCalls
    /\ \E user \in Users, issue_id \in IssueIds :
       \E now \in WriteNows(delete_issue(Database, user, issue_id, clock).ok) :
        Call("delete_issue", user, None, issue_id, <<>>, "", NoFilters, now,
             delete_issue(Database, user, issue_id, now))

AddUpdateNote ==
    /\ calls < MaxCalls
    /\ \E user \in Users, issue_id \in IssueIds, note \in Notes :
       \E now \in WriteNows(add_update_note(Database, user, issue_id, note,
                                             clock).ok) :
        Call("add_update_note", user, None, issue_id, <<>>, note, NoFilters,
             now,
             add_update_note(Database, user, issue_id, note, now))

\* the reads do not look at the clock
GetIssue ==
    /\ calls < MaxCalls
    /\ \E user \in Users, issue_id \in IssueIds :
        Call("get_issue", user, None, issue_id, <<>>, "", NoFilters, clock,
             get_issue(Database, user, issue_id))

ListIssues ==
    /\ calls < MaxCalls
    /\ \E user \in Users, filters \in Filters :
        Call("list_issues", user, None, 0, <<>>, "", filters, clock,
             list_issues(Database, user, filters.status, filters.department,
                         filters.order_dir))

Next ==
    \/ CreateIssue \/ UpdateIssue \/ DeleteIssue \/ AddUpdateNote
    \/ GetIssue \/ ListIssues

Spec == Init /\ [][Next]_vars

(***************************************************************************)
(* The permission checks on their own.  The arguments are drawn at the     *)
(* start: the three department lists of a user, an issue and a status      *)
(* asked for; a step calls one check for the user of each role with those  *)
(* lists, and last records the answers by role.                            *)
(***************************************************************************)
DepartmentNames == {"IT", "Finance"}

Actor(role) ==
    User(Some(1), "user", role, last.departments, last.view_departments,
         last.edit_departments)

InitPure ==
    /\ issues = <<>>
    /\ nextIssueId = 1
    /\ audit = <<>>
    /\ NoSession
    /\ NoInstances
    /\ clock = 0
    /\ calls = 0
    /\ \E departments \in SUBSET DepartmentNames,
          view_departments \in SUBSET DepartmentNames,
          edit_departments \in SUBSET DepartmentNames,
          status \in Status, department \in Departments,
          new_status \in Status :
            last = [op |-> "", departments |-> departments,
                    view_departments |-> view_departments,
                    edit_departments |-> edit_departments,
                    issue |-> Issue("T1", status, department, None, None),
                    new_status |-> new_status, ret |-> <<>>]

Answer(op, ret) ==
    /\ last.op = ""
    /\ last' = [last EXCEPT !.op = op, !.ret = ret]
    /\ UNCHANGED <<issues, nextIssueId, audit, users, nextUserId,
                   current_user, clock, calls, procs, writes>>

CanViewIssue ==
    Answer("can_view_issue",
           [role \in UserRole |-> can_view_issue(Actor(role), last.issue)])

CanEditIssue ==
    Answer("can_edit_issue",
           [role \in UserRole |-> can_edit_issue(Actor(role), last.issue)])

CanChangeStatus ==
    Answer("can_change_status",
           [role \in UserRole |->
                can_change_status(Actor(role), last.issue.status,
                                  last.new_status)])

NextPure == CanViewIssue \/ CanEditIssue \/ CanChangeStatus

SpecPure == InitPure /\ [][NextPure]_vars

(***************************************************************************)
(* One session of the application: the AuthService with its current user,  *)
(* the user management, and the issue service called for the current user  *)
(* as the windows do.  last records the call, what it returned and the     *)
(* three tables and the current user before it.                            *)
(***************************************************************************)
Session ==
    [users |-> users, nextUserId |-> nextUserId, audit |-> audit,
     current_user |-> current_user]

UserNames == {"admin", "bob"}
NewUserRoles == {ADMINISTRATOR, EDITOR}
RoleChanges == {None, Some(VIEWER)}
NameChanges == {None, Some("bob")}
UserIds == 1..nextUserId
SessionDraft == Issue("T1", OPEN, Some("IT"), None, None)
SessionPayloads == {"status" :> CLOSED, "title" :> "T2"}

Recorded(op, user_id, issue_id, username, role, ret) ==
    [op |-> op, user_id |-> user_id, issue_id |-> issue_id,
     username |-> username, role |-> role, ret |-> ret,
     issues |-> issues, users |-> users, audit |-> audit,
     current_user |-> current_user]

InitSession ==
    /\ issues = <<>>
    /\ nextIssueId = 1
    /\ audit = <<>>
    /\ NoSession
    /\ NoInstances
    /\ clock = 0
    /\ calls = 0
    /\ last = [op |-> "", user_id |-> 0, issue_id |-> 0, username |-> "",
               role |-> "", ret |-> None, issues |-> <<>>,
               users |-> DefaultUsers, audit |-> <<>>, current_user |-> None]

AuthCall(op, user_id, username, role, now, out) ==
    /\ calls' = calls + 1
    /\ clock' = now
    /\ users' = out.users
    /\ nextUserId' = out.nextUserId
    /\ audit' = out.audit
    /\ current_user' = out.current_user
    /\ last' = Recorded(op, user_id, 0, username, role, out.ret)
    /\ UNCHANGED <<issues, nextIssueId, procs, writes>>

IssueCall(op, issue_id, now, out) ==
    /\ calls' = calls + 1
    /\ clock' = now
    /\ issues' = out.issues
    /\ nextIssueId' = out.nextIssueId
    /\ audit' = out.audit
    /\ last' = Recorded(op, 0, issue_id, "", "", out.ret)
    /\ UNCHANGED <<users, nextUserId, current_user, procs, writes>>

\* authenticate and login: the user is a stored one
Login ==
    /\ calls < MaxSessionCalls
    /\ \E user_id \in DOMAIN users, now \in Nows :
        AuthCall("login", user_id, "", "", now,
                 login(Session, queries_get_user(users, user_id)[1], now))

Logout ==
    /\ calls < MaxSessionCalls
    /\ \E now \in Nows :
        AuthCall("logout", 0, "", "", now, logout(Session, now))

LoginAsAdmin ==
    /\ calls < MaxSessionCalls
    /\ current_user = None
    /\ AuthCall("login_as_admin", 0, "", "", clock, login_as_admin(Session))

CreateUser ==
    /\ calls < MaxSessionCalls
    /\ \E username \in UserNames, role \in NewUserRoles, now \in Nows :
        AuthCall("create_user", 0, username, role, now,
                 create_user(Session, username, role, {"IT"}, {"IT"},
                             {"Finance"}, now))

UpdateUser ==
    /\ calls < MaxSessionCalls
    /\ \E user_id \in UserIds, username \in NameChanges,
          role \in RoleChanges, now \in Nows :
        AuthCall("update_user", user_id, username, role, now,
                 update_user(Session, user_id, username, role, now))

DeleteUser ==
    /\ calls < MaxSessionCalls
    /\ \E user_id \in UserIds, now \in Nows :
        AuthCall("delete_user", user_id, "", "", now,
                 delete_user(Session, user_id, now))

SessionCreateIssue ==
    /\ calls < MaxSessionCalls
    /\ current_user # None
    /\ \E now \in Nows :
        IssueCall("create_issue", 0, now,
                  create_issue(Database, current_user[1], SessionDraft, now))

SessionUpdateIssue ==
    /\ calls < MaxSessionCalls
    /\ current_user # None
    /\ \E issue_id \in DOMAIN issues, updates \in SessionPayloads,
          now \in Nows :
        IssueCall("update_issue", issue_id, now,
                  update_issue(Database, current_user[1], issue_id, updates,
                               now, ""))

SessionAddUpdateNote ==
    /\ calls < MaxSessionCalls
    /\ current_user # None
    /\ \E issue_id \in DOMAIN issues, now \in Nows :
        IssueCall("add_update_note", issue_id, now,
                  add_update_note(Database, current_user[1], issue_id, "note",
                                  now))

SessionDeleteIssue ==
    /\ calls < MaxSessionCalls
    /\ current_user # None
    /\ \E issue_id \in DOMAIN issues, now \in Nows :
        IssueCall("delete_issue", issue_id, now,
                  delete_issue(Database, current_user[1], issue_id, now))

NextSession ==
    \/ Login \/ Logout \/ LoginAsAdmin
    \/ CreateUser \/ UpdateUser \/ DeleteUser
    \/ SessionCreateIssue \/ SessionUpdateIssue \/ SessionAddUpdateNote
    \/ SessionDeleteIssue

SpecSession == InitSession /\ [][NextSession]_vars

(***************************************************************************)
(* Several instances of the application on one database file (WAL mode,    *)
(* "shared database scenarios").  Every statement is committed on its own  *)
(* (db.execute, db.commit), so a service call is a sequence of steps: the  *)
(* read and the checks, the write of the issue, the write of each audit    *)
(* event; the steps of two instances interleave, and an instance may stop  *)
(* between two steps.  procs holds the local variables of the call each    *)
(* instance is in; writes is the history of the statements committed on    *)
(* the issues table, with the number of rows each one changed.             *)
(***************************************************************************)
Procs == {1, 2}
\* the user logged in at each instance
InstanceUser(p) == IF p = 1 THEN admin_user ELSE editor_user
\* the ids an instance may have on its screen: the ones given so far
KnownIssueIds == 1..(nextIssueId - 1)
StepPayloads == SessionPayloads

ERR_DELETE_FAILED == <<"Failed to delete issue.">>

\* call: the number of the call among the calls begun
Idle ==
    [pc |-> "idle", call |-> 0, op |-> "", user |-> NoUser, issue_id |-> 0,
     updates |-> <<>>, original |-> None, issue |-> None, err |-> NO_ERROR]

Returns(proc, error) == [proc EXCEPT !.pc = "done", !.err = error]

\* create_issue up to the INSERT: the permission check and the defaults
create_issue_begin(user, issue, now) ==
    LET call == [Idle EXCEPT !.op = "create_issue", !.user = user] IN
    IF ~can_create_issue(user) THEN Returns(call, ERR_CREATE_DENIED)
    ELSE
    LET defaulted ==
            IF issue.status = DRAFT /\ user.role # RESTRICTED
            THEN [issue EXCEPT !.status = get_default_status_for_role(user)]
            ELSE issue
        dated ==
            IF defaulted.identification_date = None
            THEN [defaulted EXCEPT !.identification_date = Some(today(now))]
            ELSE defaulted
    IN  [call EXCEPT !.pc = "write", !.issue = Some(dated)]

\* update_issue up to the UPDATE: the read, the checks, the payload applied
\* to the object that was read
update_issue_begin(store, user, issue_id, updates, now) ==
    LET call == [Idle EXCEPT !.op = "update_issue", !.user = user,
                             !.issue_id = issue_id, !.updates = updates]
        found == queries_get_issue(store, issue_id)
    IN
    IF found = None THEN Returns(call, ERR_NOT_FOUND)
    ELSE
    LET original == found[1]
        denied == denied_fields(user, original, updates)
    IN
    IF ~can_edit_issue(user, original) THEN Returns(call, ERR_EDIT_DENIED)
    ELSE IF denied # {}
        THEN Returns(call, ERR_FIELD_DENIED(CHOOSE field \in denied : TRUE))
    ELSE IF "status" \in DOMAIN updates
            /\ ~can_change_status(user, original.status, updates["status"])
        THEN Returns(call, ERR_STATUS(original.status, updates["status"]))
    ELSE
    LET applied == apply_updates(original, updates,
                                 get_editable_fields(user, original))
        closed ==
            IF "status" \in DOMAIN updates
            THEN auto_closing_date(applied, updates["status"], now)
            ELSE applied
    IN  [call EXCEPT !.pc = "write", !.original = found,
                     !.issue = Some(closed)]

\* delete_issue up to the DELETE: the permission check and the read
delete_issue_begin(store, user, issue_id) ==
    LET call == [Idle EXCEPT !.op = "delete_issue", !.user = user,
                             !.issue_id = issue_id]
        found == queries_get_issue(store, issue_id)
    IN
    IF ~can_delete_issue(user) THEN Returns(call, ERR_DELETE_DENIED)
    ELSE IF found = None THEN Returns(call, ERR_NOT_FOUND)
    ELSE [call EXCEPT !.pc = "write", !.original = found]

\* mutant: the UPDATE is refused when the row was written since it was read
update_rows_unless_stale(store, issue, now) ==
    IF issue.id[1] \in DOMAIN store
        /\ store[issue.id[1]].updated_at = isoformat(issue.updated_at)
    THEN StorePut(store, queries_update_issue(issue, now))
    ELSE store

\* UPDATE issues SET <every column> WHERE id = ?: no row, nothing written,
\* and no error
update_rows(store, issue, now) ==
    IF issue.id[1] \in DOMAIN store
    THEN StorePut(store, queries_update_issue(issue, now))
    ELSE store

\* cursor.rowcount of the UPDATE and of the DELETE
rowcount(store, issue_id) == IF issue_id \in DOMAIN store THEN 1 ELSE 0

\* pending: the update_issue calls of the other instances that have read
\* the same issue and have not written it yet
Written(p, issue_id, rows) ==
    Append(writes, [call |-> procs[p].call, op |-> procs[p].op,
                    issue_id |-> issue_id, user_id |-> procs[p].user.id,
                    rows |-> rows,
                    pending |-> {procs[q].call : q \in
                                    {q \in Procs \ {p} :
                                        /\ procs[q].pc = "write"
                                        /\ procs[q].op = "update_issue"
                                        /\ procs[q].issue_id = issue_id}}])

InitSteps ==
    /\ issues = <<>>
    /\ nextIssueId = 1
    /\ audit = <<>>
    /\ NoSession
    /\ procs = [p \in Procs |-> Idle]
    /\ writes = <<>>
    /\ clock = 0
    /\ calls = 0
    /\ last = [op |-> ""]

Begins(p, call) ==
    /\ calls' = calls + 1
    /\ procs' = [procs EXCEPT ![p] = [call EXCEPT !.call = calls + 1]]
    /\ UNCHANGED <<issues, nextIssueId, audit, users, nextUserId,
                   current_user, clock, last, writes>>

\* an instance that is in no call starts one
BeginCreateIssue ==
    /\ calls < MaxStarts
    /\ \E p \in Procs :
        /\ procs[p].pc \in {"idle", "done"}
        /\ Begins(p, create_issue_begin(InstanceUser(p), SessionDraft,
                                        clock))

BeginUpdateIssue ==
    /\ calls < MaxStarts
    /\ \E p \in Procs, issue_id \in KnownIssueIds, updates \in StepPayloads :
        /\ procs[p].pc \in {"idle", "done"}
        /\ Begins(p, update_issue_begin(issues, InstanceUser(p), issue_id,
                                        updates, clock))

BeginDeleteIssue ==
    /\ calls < MaxStarts
    /\ \E p \in Procs, issue_id \in KnownIssueIds :
        /\ procs[p].pc \in {"idle", "done"}
        /\ Begins(p, delete_issue_begin(issues, InstanceUser(p), issue_id))

\* queries.create_issue, queries.update_issue, queries.delete_issue: the
\* statement and its commit; the clock has moved since the last one
WriteIssue ==
    \E p \in Procs :
        LET proc == procs[p]
            now == clock + 1
        IN
        /\ proc.pc = "write"
        /\ clock' = now
        /\ CASE proc.op = "create_issue" ->
                LET created == queries_create_issue(proc.issue[1],
                                                    nextIssueId, now)
                IN  /\ issues' = StorePut(issues, created)
                    /\ nextIssueId' = nextIssueId + 1
                    /\ procs' = [procs EXCEPT ![p] =
                                    [proc EXCEPT !.pc = "log",
                                                 !.issue_id = nextIssueId,
                                                 !.issue = Some(created)]]
                    /\ writes' = Written(p, nextIssueId, 1)
             [] proc.op = "update_issue" ->
                /\ issues' = update_rows(issues, proc.issue[1], now)
                /\ procs' = [procs EXCEPT ![p] =
                                [proc EXCEPT
                                    !.pc = "log",
                                    !.issue = Some(queries_update_issue(
                                                    proc.issue[1], now))]]
                /\ writes' = Written(p, proc.issue_id,
                                     rowcount(issues, proc.issue_id))
                /\ UNCHANGED nextIssueId
             [] proc.op = "delete_issue" ->
                LET result == rowcount(issues, proc.issue_id) > 0 IN
                /\ issues' = StoreDelete(issues, proc.issue_id)
                /\ procs' = [procs EXCEPT ![p] =
                                IF result THEN [proc EXCEPT !.pc = "log"]
                                ELSE Returns(proc, ERR_DELETE_FAILED)]
                /\ writes' = Written(p, proc.issue_id,
                                     rowcount(issues, proc.issue_id))
                /\ UNCHANGED nextIssueId
        /\ UNCHANGED <<audit, users, nextUserId, current_user, calls, last>>

\* log_issue_created, log_issue_updated, log_issue_deleted
WriteAudit ==
    \E p \in Procs :
        LET proc == procs[p] IN
        /\ proc.pc = "log"
        /\ CASE proc.op = "create_issue" ->
                /\ audit' = log_issue_created(audit, proc.user, proc.issue[1],
                                              clock)
                /\ procs' = [procs EXCEPT ![p] = Returns(proc, NO_ERROR)]
             [] proc.op = "update_issue" ->
                /\ audit' = log_issue_updated(audit, proc.user, proc.issue_id,
                                              to_dict(proc.original[1]),
                                              to_dict(proc.issue[1]), clock)
                /\ procs' = [procs EXCEPT ![p] =
                                IF status_change_logged(
                                        proc.updates,
                                        proc.original[1].status)
                                THEN [proc EXCEPT !.pc = "log_status"]
                                ELSE Returns(proc, NO_ERROR)]
             [] proc.op = "delete_issue" ->
                /\ audit' = log_issue_deleted(audit, proc.user,
                                              proc.original[1], clock)
                /\ procs' = [procs EXCEPT ![p] = Returns(proc, NO_ERROR)]
        /\ UNCHANGED <<issues, nextIssueId, users, nextUserId, current_user,
                       clock, calls, last, writes>>

\* log_issue_status_changed
WriteStatusAudit ==
    \E p \in Procs :
        LET proc == procs[p] IN
        /\ proc.pc = "log_status"
        /\ audit' = log_issue_status_changed(audit, proc.user, proc.issue_id,
                                             proc.original[1].status,
                                             proc.updates["status"], clock)
        /\ procs' = [procs EXCEPT ![p] = Returns(proc, NO_ERROR)]
        /\ UNCHANGED <<issues, nextIssueId, users, nextUserId, current_user,
                       clock, calls, last, writes>>

\* the instance stops between two statements and is started again: what
\* was committed stays, the call returns nothing
Crash ==
    \E p \in Procs :
        /\ procs[p].pc \in {"write", "log", "log_status"}
        /\ procs' = [procs EXCEPT ![p] = Idle]
        /\ UNCHANGED <<issues, nextIssueId, audit, users, nextUserId,
                       current_user, clock, calls, last, writes>>

NextSteps ==
    \/ BeginCreateIssue \/ BeginUpdateIssue \/ BeginDeleteIssue
    \/ WriteIssue \/ WriteAudit \/ WriteStatusAudit
    \/ Crash

SpecSteps == InitSteps /\ [][NextSteps]_vars

(***************************************************************************)
(* What the claims speak of: the issue a call named, as it was stored      *)
(* before the call, and the audit events the call appended.                *)
(***************************************************************************)
Named == last.issue_id \in DOMAIN last.issues
Before == from_row(last.issues[last.issue_id])
After == from_row(issues[last.issue_id])

AuditKept ==
    /\ Len(audit) >= Len(last.audit)
    /\ SubSeq(audit, 1, Len(last.audit)) = last.audit
NewEvents == (Len(last.audit) + 1)..Len(audit)
NewEventsOf(action) == {i \in NewEvents : audit[i].action = action}

NothingWritten == issues = last.issues /\ audit = last.audit

\* C1. All-or-nothing update: a payload of update_issue with a key that is
\* neither editable for the actor on the stored issue nor one of id,
\* created_at, updated_at makes the call return an error and leaves the
\* stored issue (every field, updated_at included) and the audit log as
\* they were.
HasForbiddenKey ==
    \E key \in DOMAIN last.updates :
        /\ key \notin get_editable_fields(last.user, Before)
        /\ key \notin {"id", "created_at", "updated_at"}

C1_AllOrNothing ==
    (last.op = "update_issue" /\ Named /\ HasForbiddenKey)
        => /\ ~last.ok
           /\ last.ret = None
           /\ last.err # NO_ERROR
           /\ NothingWritten

\* a Restricted actor, on an issue it may edit, names an editable key
\* together with a forbidden one
C1_Witness ==
    /\ last.op = "update_issue" /\ Named /\ HasForbiddenKey
    /\ can_edit_issue(last.user, Before)
    /\ \E key \in DOMAIN last.updates :
            key \in get_editable_fields(last.user, Before)

\* C2. Every accepted update_issue that changes the stored status changes
\* it along an edge of the global graph; a call asking for any other change
\* of status is rejected and leaves the issue as it was.
GlobalEdges ==
    {<<DRAFT, OPEN>>, <<OPEN, IN_PROGRESS>>, <<OPEN, CLOSED>>,
     <<IN_PROGRESS, OPEN>>, <<IN_PROGRESS, REMEDIATED>>,
     <<IN_PROGRESS, CLOSED>>, <<REMEDIATED, IN_PROGRESS>>,
     <<REMEDIATED, CLOSED>>}

C2_GlobalGraph ==
    (last.op = "update_issue" /\ Named)
        => /\ (last.ok /\ After.status # Before.status)
                => <<Before.status, After.status>> \in GlobalEdges
           /\ ("status" \in DOMAIN last.updates
                /\ last.updates["status"] # Before.status
                /\ <<Before.status, last.updates["status"]>> \notin GlobalEdges)
                => (~last.ok /\ issues = last.issues)

C2_Witness ==
    /\ last.op = "update_issue" /\ Named /\ last.ok
    /\ Before.status = REMEDIATED /\ After.status = CLOSED

\* C3. Closed is terminal: whatever the call and the actor, an issue stored
\* as Closed before the call is Closed after it, unless the call was
\* delete_issue and removed it.
C3_ClosedIsTerminal ==
    \A id \in DOMAIN last.issues :
        last.issues[id].status = CLOSED
            => IF id \in DOMAIN issues
               THEN issues[id].status = CLOSED
               ELSE last.op = "delete_issue"

\* an Administrator asks to reopen a Closed issue
C3_Witness ==
    /\ last.op = "update_issue" /\ Named
    /\ last.user.role = ADMINISTRATOR
    /\ Before.status = CLOSED
    /\ "status" \in DOMAIN last.updates
    /\ last.updates["status"] = OPEN

\* C4. An accepted update_issue of a Restricted actor that changes the
\* stored status changes it along Open<->In Progress or In
\* Progress<->Remediated: never Draft->Open, never into Closed.
RestrictedEdges ==
    {<<OPEN, IN_PROGRESS>>, <<IN_PROGRESS, OPEN>>,
     <<IN_PROGRESS, REMEDIATED>>, <<REMEDIATED, IN_PROGRESS>>}

C4_RestrictedSubgraph ==
    (last.op = "update_issue" /\ Named /\ last.ok
        /\ last.user.role = RESTRICTED /\ After.status # Before.status)
        => /\ <<Before.status, After.status>> \in RestrictedEdges
           /\ After.status # CLOSED
           /\ <<Before.status, After.status>> # <<DRAFT, OPEN>>

C4_Witness ==
    /\ last.op = "update_issue" /\ Named /\ last.ok
    /\ last.user.role = RESTRICTED
    /\ Before.status = IN_PROGRESS /\ After.status = REMEDIATED

\* C5 (as claimed). Scenario A: a Restricted actor whose departments hold
\* the issue's department asks update_issue for status Open on a Draft
\* issue: rejected with the "cannot change status from Draft to Open"
\* error, issue and audit log unchanged.
ScenarioA ==
    /\ last.op = "update_issue" /\ Named
    /\ last.user.role = RESTRICTED
    /\ Before.department # None
    /\ Before.department[1] \in last.user.departments
    /\ Before.status = DRAFT
    /\ "status" \in DOMAIN last.updates
    /\ last.updates["status"] = OPEN

C5_ScenarioA_InvalidTransition ==
    ScenarioA
        => /\ ~last.ok
           /\ last.err = ERR_STATUS(DRAFT, OPEN)
           /\ NothingWritten

\* C5 (amended). In Scenario A the call is rejected with the "no permission
\* to edit this issue" error, issue and audit log unchanged.
C5_ScenarioA_EditDenied ==
    ScenarioA
        => /\ ~last.ok
           /\ last.ret = None
           /\ last.err = ERR_EDIT_DENIED
           /\ NothingWritten

C5_Witness == ScenarioA /\ DOMAIN last.updates = {"status"}

\* C6. A create_issue that returns an issue appends exactly one event:
\* created, issue, the new id, {title, status} of the stored issue.  A
\* delete_issue that returns success appends exactly one event: deleted,
\* issue, that id, its title.  A create or delete that returns an error
\* appends none.
OneNewEvent == AuditKept /\ Len(audit) = Len(last.audit) + 1

C6_CreateDeleteAudited ==
    /\ (last.op = "create_issue" /\ last.ret # None)
        => /\ OneNewEvent
           /\ LET event == audit[Len(audit)]
                  stored == from_row(issues[last.ret[1].id[1]])
              IN  /\ event.action = "created"
                  /\ event.entity_type = "issue"
                  /\ event.entity_id = last.ret[1].id
                  /\ event.details = [title |-> stored.title,
                                      status |-> stored.status]
    /\ (last.op = "delete_issue" /\ last.ok)
        => /\ OneNewEvent
           /\ LET event == audit[Len(audit)]
              IN  /\ event.action = "deleted"
                  /\ event.entity_type = "issue"
                  /\ event.entity_id = Some(last.issue_id)
                  /\ event.details = [title |-> Before.title]
    /\ (last.op \in {"create_issue", "delete_issue"} /\ last.err # NO_ERROR)
        => audit = last.audit

C6_Witness ==
    /\ last.op = "delete_issue" /\ last.ok
    /\ Len(audit) = 2
    /\ audit[1].action = "created" /\ audit[1].details.status = OPEN

\* C7. An accepted update_issue appends at most one updated event and at
\* most one status_changed event; the status_changed event is there if and
\* only if the stored status differs from the one before, and its details
\* are those two statuses.
C7_UpdateEvents ==
    (last.op = "update_issue" /\ last.ok)
        => /\ AuditKept
           /\ Cardinality(NewEventsOf("updated")) <= 1
           /\ Cardinality(NewEventsOf("status_changed")) <= 1
           /\ (NewEventsOf("status_changed") # {})
                <=> (After.status # Before.status)
           /\ \A i \in NewEventsOf("status_changed") :
                audit[i].details = [before |-> Before.status,
                                    after |-> After.status]
           /\ ("status" \in DOMAIN last.updates
                /\ last.updates["status"] = Before.status)
                => NewEventsOf("status_changed") = {}

C7_Witness ==
    /\ last.op = "update_issue" /\ last.ok
    /\ NewEventsOf("status_changed") # {}
    /\ NewEventsOf("updated") # {}
    /\ Before.status = OPEN /\ After.status = IN_PROGRESS

\* C8 (as claimed). No-op updates are silent: an update_issue by an actor
\* allowed to edit the stored issue, whose payload gives every field it
\* names the value the issue has (the empty payload included), appends no
\* audit event.
NoOpPayload ==
    \A key \in DOMAIN last.updates :
        key \in DOMAIN Before /\ last.updates[key] = Before[key]

C8_NoOpSilent ==
    (last.op = "update_issue" /\ Named /\ can_edit_issue(last.user, Before)
        /\ NoOpPayload)
        => audit = last.audit

\* C9 (as claimed). Every call that changes a stored issue or removes it
\* appends an audit event of type issue with that issue's id and the
\* caller's username.
Touched ==
    {id \in DOMAIN last.issues \cup DOMAIN issues :
        \/ id \notin DOMAIN last.issues
        \/ id \notin DOMAIN issues
        \/ issues[id] # last.issues[id]}

C9_EveryMutationAudited ==
    \A id \in Touched :
        \E i \in NewEvents :
            /\ audit[i].entity_type = "issue"
            /\ audit[i].entity_id = Some(id)
            /\ audit[i].username = last.user.username

\* C10. A Viewer's create_issue returns no issue and the permission error,
\* and leaves the stored issues and the audit log as they were.
C10_ViewerCreateRejected ==
    (last.op = "create_issue" /\ last.user.role = VIEWER)
        => /\ ~last.ok
           /\ last.ret = None
           /\ last.err = ERR_CREATE_DENIED
           /\ NothingWritten

C10_Witness ==
    /\ last.op = "create_issue" /\ last.user.role = VIEWER
    /\ DOMAIN last.issues # {}

\* C11 (as claimed). Create/read round trip: a get_issue that follows an
\* accepted create_issue at once, by the same actor and for the returned id,
\* returns an issue, equal to the returned one on every field but id,
\* created_at and updated_at.
ServerAssigned == {"id", "created_at", "updated_at"}

ReadsBackCreated ==
    /\ last.op = "create_issue" /\ last.ok
    /\ last'.op = "get_issue"
    /\ last'.user = last.user
    /\ last'.issue_id = last.ret[1].id[1]

C11_CreateReadRoundTrip ==
    [][ReadsBackCreated
        => /\ last'.ret # None
           /\ \A field \in IssueFields \ ServerAssigned :
                last'.ret[1][field] = last.ret[1][field]]_vars

\* C12 (as claimed). Existence is not leaked: get_issue on a stored issue
\* the actor may not view returns what it returns for an id that is not
\* stored: no issue and the "Issue not found." error.
C12_ExistenceNotLeaked ==
    (last.op = "get_issue" /\ Named /\ ~can_view_issue(last.user, Before))
        => /\ last.ret = None
           /\ last.err = get_issue(Database, last.user, nextIssueId).err
           /\ last.err = ERR_NOT_FOUND

\* C13. An accepted update_issue that moves the status into Closed leaves a
\* closing_date: today when the issue had none and the payload gave none,
\* or when the payload gave a null one; the date the payload gave, or else
\* the date the issue had, otherwise.
MovedIntoClosed ==
    /\ last.op = "update_issue" /\ Named /\ last.ok
    /\ Before.status # CLOSED /\ After.status = CLOSED

GivenClosingDate ==
    IF "closing_date" \in DOMAIN last.updates
    THEN last.updates["closing_date"]
    ELSE Before.closing_date

C13_ClosingDateOnClose ==
    MovedIntoClosed
        => /\ After.closing_date # None
           /\ After.closing_date =
                IF GivenClosingDate = None THEN Some(today(clock))
                ELSE GivenClosingDate

\* the issue had a closing date, the payload names a null one
C13_Witness ==
    /\ MovedIntoClosed
    /\ Before.closing_date # None
    /\ "closing_date" \in DOMAIN last.updates
    /\ last.updates["closing_date"] = None
    /\ After.closing_date = Some(today(clock))

\* C14 (as claimed). closing_date is never written directly: the stored
\* closing_date of an issue that stays stored changes only in an
\* update_issue call on that issue that moves its status into Closed.
C14_ClosingDateNeverWrittenDirectly ==
    \A id \in DOMAIN last.issues \cap DOMAIN issues :
        issues[id].closing_date # last.issues[id].closing_date
            => /\ last.op = "update_issue"
               /\ id = last.issue_id
               /\ last.issues[id].status # CLOSED
               /\ issues[id].status = CLOSED

\* C15. Restricted field mask: the editable fields of a Restricted actor on
\* an issue it can edit are exactly status, updates, supporting_docs and
\* follow_up_date, and an accepted update_issue of a Restricted actor leaves
\* every other field but updated_at as it was.
RestrictedMask == {"status", "updates", "supporting_docs", "follow_up_date"}

C15_RestrictedFieldMask ==
    (last.op = "update_issue" /\ Named /\ last.user.role = RESTRICTED)
        => /\ can_edit_issue(last.user, Before)
                => get_editable_fields(last.user, Before) = RestrictedMask
           /\ last.ok
                => \A field \in IssueFields \ (RestrictedMask \cup {"updated_at"}) :
                        After[field] = Before[field]

C15_Witness ==
    /\ last.op = "update_issue" /\ Named /\ last.ok
    /\ last.user.role = RESTRICTED
    /\ After.updates # Before.updates
    /\ After.updated_at # Before.updated_at

\* C16. Edit-department scoping: an Editor with a non-empty edit_departments
\* that does not hold the (non-null) department of a stored issue is refused
\* by update_issue on that issue, whatever the payload and whatever its
\* view_departments, with the permission error; the issue and the audit log
\* stay as they were.
OutsideEditScope ==
    /\ last.op = "update_issue" /\ Named
    /\ last.user.role = EDITOR
    /\ last.user.edit_departments # {}
    /\ Before.department # None
    /\ Before.department[1] \notin last.user.edit_departments

C17_MonotonicEditScope ==
    last.op = "can_edit_issue"
        => /\ last.departments = last.edit_departments
                => /\ last.ret[RESTRICTED] => last.ret[EDITOR]
                   /\ last.ret[EDITOR] => last.ret[ADMINISTRATOR]
           /\ ~last.ret[VIEWER]

\* S holds the issue's department, the Editor's view_departments do not
C17_Witness ==
    /\ last.op = "can_edit_issue"
    /\ last.departments = {"IT"} /\ last.edit_departments = {"IT"}
    /\ last.view_departments = {"Finance"}
    /\ last.issue.department = Some("IT")
    /\ last.ret[RESTRICTED] /\ last.ret[EDITOR]

\* C18. can_change_status is the five-step reference, for every role and
\* every pair of statuses: true from a status to itself; else false for a
\* Viewer; else false off the global graph; else, for a Restricted actor,
\* true exactly on the Restricted subgraph; else true.  Out of Closed it is
\* false for every role.
Reference(role, from, to) ==
    IF from = to THEN TRUE
    ELSE IF role = VIEWER THEN FALSE
    ELSE IF <<from, to>> \notin GlobalEdges THEN FALSE
    ELSE IF role = RESTRICTED THEN <<from, to>> \in RestrictedEdges
    ELSE TRUE

C18_CanChangeStatusReference ==
    last.op = "can_change_status"
        => \A role \in UserRole :
            /\ last.ret[role] = Reference(role, last.issue.status, last.new_status)
            /\ (last.issue.status = CLOSED /\ last.new_status # CLOSED)
                    => ~last.ret[role]

C18_Witness ==
    /\ last.op = "can_change_status"
    /\ last.issue.status = REMEDIATED /\ last.new_status = CLOSED
    /\ ~last.ret[RESTRICTED] /\ last.ret[EDITOR] /\ ~last.ret[VIEWER]

\* C19. list_issues returns exactly the stored issues that match the
\* filters and that the actor may view, each once, in the order of the ids
\* asked for; an issue without a department is listed for a scoped actor.
MatchesFilters(issue) ==
    /\ last.filters.status # {} => issue.status \in last.filters.status
    /\ last.filters.department # {}
            => /\ issue.department # None
               /\ issue.department[1] \in last.filters.department

ViewableMatches ==
    {id \in DOMAIN issues :
        /\ MatchesFilters(from_row(issues[id]))
        /\ can_view_issue(last.user, from_row(issues[id]))}

C20_NullDepartmentBypass ==
    last.issue.department = None
        => /\ last.op = "can_view_issue"
                => \A role \in UserRole : last.ret[role]
           /\ last.op = "can_edit_issue"
                => /\ last.ret[EDITOR]
                   /\ last.issue.status \notin {DRAFT, CLOSED}
                        => last.ret[RESTRICTED]

C20_Witness ==
    /\ last.op = "can_view_issue"
    /\ last.issue.department = None
    /\ last.departments = {"IT"}
    /\ last.view_departments = {"Finance"}
    /\ last.edit_departments = {"Finance"}
    /\ \A role \in UserRole : last.ret[role]

\* C21. Default status on create: a draft given as Draft is stored as Open
\* for an Administrator or Editor and as Draft for a Restricted actor; a
\* draft given with another status is stored with that status.  No issue
\* created by an Administrator or Editor is stored as Draft.
CreatedIssue == from_row(issues[last.ret[1].id[1]])

C21_DefaultStatusOnCreate ==
    (last.op = "create_issue" /\ last.ok)
        => /\ last.issue[1].status = DRAFT
                => CreatedIssue.status =
                        IF last.user.role = RESTRICTED THEN DRAFT ELSE OPEN
           /\ last.issue[1].status # DRAFT
                => CreatedIssue.status = last.issue[1].status
           /\ last.user.role \in {ADMINISTRATOR, EDITOR}
                => CreatedIssue.status # DRAFT
           /\ last.ret[1].status = CreatedIssue.status

C21_Witness ==
    /\ last.op = "create_issue" /\ last.ok
    /\ last.user.role = EDITOR
    /\ last.issue[1].status = DRAFT
    /\ CreatedIssue.status = OPEN

\* C22. Only Administrators delete: delete_issue by an Editor, Restricted or
\* Viewer actor fails with the permission error, whether the id is stored
\* or not, and writes nothing; delete_issue by an Administrator on a stored
\* issue removes it, its id is not given again, and get_issue of that id
\* finds nothing for any actor.
C22_OnlyAdministratorsDelete ==
    last.op = "delete_issue"
        => /\ last.user.role # ADMINISTRATOR
                => /\ ~last.ok
                   /\ last.err = ERR_DELETE_DENIED
                   /\ NothingWritten
           /\ (last.user.role = ADMINISTRATOR /\ Named)
                => /\ last.ok
                   /\ last.issue_id \notin DOMAIN issues
                   /\ last.issue_id < nextIssueId
                   /\ \A user \in Users :
                        /\ get_issue(Database, user, last.issue_id).ret = None
                        /\ get_issue(Database, user, last.issue_id).err
                                = ERR_NOT_FOUND

\* an Editor names an id that is not stored, while another issue is
C22_Witness ==
    /\ last.op = "delete_issue"
    /\ last.user.role = EDITOR
    /\ ~Named
    /\ DOMAIN last.issues # {}

\* C23. The audit trail is append-only: after every call of the session
\* (login, logout, user management, issue service) the audit log is the log
\* before the call, every event as it was, followed by the new events; after
\* a delete_user or a delete_issue the events that refer to the deleted
\* user or issue are still there, with the username they recorded.
RefersTo(entry, entity_type, entity_id) ==
    entry.entity_type = entity_type /\ entry.entity_id = Some(entity_id)

C23_AuditAppendOnly ==
    /\ Len(audit) >= Len(last.audit)
    /\ \A i \in 1..Len(last.audit) : audit[i] = last.audit[i]
    /\ \A i \in 1..Len(audit) : audit[i].id = Some(i)
    /\ (last.op = "delete_user" /\ last.ret = TRUE)
        => \A i \in 1..Len(last.audit) :
            RefersTo(last.audit[i], "user", last.user_id)
                => /\ RefersTo(audit[i], "user", last.user_id)
                   /\ audit[i].username = last.audit[i].username
    /\ (last.op = "delete_issue" /\ last.issue_id \notin DOMAIN issues)
        => \A i \in 1..Len(last.audit) :
            RefersTo(last.audit[i], "issue", last.issue_id)
                => /\ RefersTo(audit[i], "issue", last.issue_id)
                   /\ audit[i].username = last.audit[i].username

\* a user whose creation was logged is deleted
C23_Witness ==
    /\ last.op = "delete_user" /\ last.ret = TRUE
    /\ \E i \in 1..Len(last.audit) :
        /\ RefersTo(last.audit[i], "user", last.user_id)
        /\ last.audit[i].action = "created"
    /\ audit[Len(audit)].action = "deleted"

\* C24. The updated event carries the full diff: after an accepted
\* update_issue the changes of the updated event are exactly the fields of
\* the serialized issue whose stored value differs from the one before the
\* call, each with its before and after value, named in the payload or not
\* (an automatic closing_date included); there is one such event when some
\* field differs and none when no field differs.
FullDiffOf(before, after) == {key \in IssueFields : before[key] # after[key]}

C24_UpdatedCarriesFullDiff ==
    (last.op = "update_issue" /\ last.ok)
        => LET before == to_dict(Before)
               after == to_dict(After)
               FullDiff == FullDiffOf(before, after)
           IN  /\ Cardinality(NewEventsOf("updated")) =
                        IF FullDiff = {} THEN 0 ELSE 1
               /\ \A i \in NewEventsOf("updated") :
                    /\ DOMAIN audit[i].details = {"changes"}
                    /\ DOMAIN audit[i].details.changes = FullDiff
                    /\ \A key \in FullDiff :
                        audit[i].details.changes[key] =
                            [before |-> before[key], after |-> after[key]]

\* the payload names the status only; the closing date was set on closing
C24_Witness ==
    /\ last.op = "update_issue" /\ last.ok
    /\ DOMAIN last.updates = {"status"}
    /\ "closing_date" \in FullDiffOf(to_dict(Before), to_dict(After))
    /\ \E i \in NewEventsOf("updated") :
            "closing_date" \in DOMAIN audit[i].details.changes

\* C25. Lost update: two update_issue calls of two instances on the same
\* issue, with payloads that name different fields, both read the issue before
\* either writes it.  Neither call returns an error, and once the second has
\* written, the stored issue is the object the second one built from what it
\* read: it holds the second writer's values, and in the first writer's fields
\* the values the second writer read.
HasWritten(p) ==
    /\ procs[p].op = "update_issue"
    /\ procs[p].pc \in {"log", "log_status", "done"}
    /\ procs[p].original # None

\* p wrote first while q held what it had read, then q wrote
Interleaved(p, q) ==
    /\ p # q
    /\ HasWritten(p) /\ HasWritten(q)
    /\ procs[p].issue_id = procs[q].issue_id
    /\ DOMAIN procs[p].updates \cap DOMAIN procs[q].updates = {}
    /\ Len(writes) >= 2
    /\ writes[Len(writes) - 1].call = procs[p].call
    /\ procs[q].call \in writes[Len(writes) - 1].pending
    /\ writes[Len(writes)].call = procs[q].call

C25_LastWriterWins ==
    \A p \in Procs, q \in Procs :
        Interleaved(p, q) =>
            LET issue_id == procs[q].issue_id
                loaded == procs[q].original[1]
            IN  /\ procs[p].err = NO_ERROR /\ procs[q].err = NO_ERROR
                /\ issue_id \in DOMAIN issues
                /\ from_row(issues[issue_id]) = procs[q].issue[1]
                /\ \A field \in DOMAIN procs[q].updates :
                        from_row(issues[issue_id])[field]
                            = procs[q].updates[field]
                /\ \A field \in DOMAIN procs[p].updates :
                        from_row(issues[issue_id])[field] = loaded[field]

\* both calls have returned, and the first writer's value was a new one
C25_Witness ==
    \E p \in Procs, q \in Procs :
        /\ Interleaved(p, q)
        /\ procs[p].pc = "done" /\ procs[q].pc = "done"
        /\ \E field \in DOMAIN procs[p].updates :
                procs[p].updates[field] # procs[q].original[1][field]

\* C26 (as claimed). The write of the issue is committed before the audit
\* write begins, and every issue event in the audit log is the event of a
\* statement that changed the stored issues: an INSERT, or an UPDATE or a
\* DELETE of the same issue by the same user that changed a row.
StatementOf(action) ==
    CASE action = "created" -> "create_issue"
      [] action = "deleted" -> "delete_issue"
      [] OTHER -> "update_issue"

MutationPersisted(entry) ==
    \E j \in 1..Len(writes) :
        /\ writes[j].op = StatementOf(entry.action)
        /\ Some(writes[j].issue_id) = entry.entity_id
        /\ writes[j].user_id = entry.user_id
        /\ writes[j].rows > 0

C26_EventOnlyOfPersistedMutation ==
    \A i \in 1..Len(audit) :
        audit[i].entity_type = "issue" => MutationPersisted(audit[i])

\* C27. The last Administrator cannot be deleted: delete_user on the only
\* stored user with role Administrator returns False and leaves the users
\* and the audit log as they were; so a create_user or delete_user call on
\* a store with an Administrator leaves a store with an Administrator.
Administrators(table) == {i \in DOMAIN table : table[i].role = ADMINISTRATOR}

C27_LastAdministratorStays ==
    /\ (last.op = "delete_user" /\ Administrators(last.users) = {last.user_id})
        => /\ last.ret = FALSE
           /\ users = last.users
           /\ audit = last.audit
    /\ (last.op \in {"create_user", "delete_user"}
            /\ Administrators(last.users) # {})
        => Administrators(users) # {}

\* somebody is logged in, another user is stored
C27_Witness ==
    /\ last.op = "delete_user"
    /\ Administrators(last.users) = {last.user_id}
    /\ DOMAIN last.users # {last.user_id}
    /\ last.current_user # None

\* C28 (as claimed). A Restricted actor never brings about a Closed issue:
\* a create_issue, update_issue or add_update_note of a Restricted actor on
\* a store without a Closed issue leaves a store without a Closed issue,
\* and every issue a Restricted actor creates is stored as Draft.
NoClosedIssue(store) == \A id \in DOMAIN store : store[id].status # CLOSED

C28_RestrictedNeverClosed ==
    (last.user.role = RESTRICTED
        /\ last.op \in {"create_issue", "update_issue", "add_update_note"})
        => /\ NoClosedIssue(last.issues) => NoClosedIssue(issues)
           /\ (last.op = "create_issue" /\ last.ok)
                => CreatedIssue.status = DRAFT

\* C29 (as claimed). Edit implies view: for every role, every three
\* department lists and every issue, can_edit_issue implies can_view_issue.
C29_EditImpliesView ==
    last.op = "can_edit_issue"
        => \A role \in UserRole :
            last.ret[role] => can_view_issue(Actor(role), last.issue)

\* C30 (as claimed). Closed issues carry a closing date: every stored issue
\* whose status is Closed has a closing_date.
C30_ClosedHasClosingDate ==
    \A id \in DOMAIN issues :
        from_row(issues[id]).status = CLOSED
            => from_row(issues[id]).closing_date # None

=============================================================================
